---- MODULE Spec2Model ----
(***************************************************************************)
(* A model of the pragma-cli provider commands                             *)
(* (src/src/pragma_cli/commands/providers.py and .../store.py).            *)
(*                                                                         *)
(* One command invocation is one behaviour: Init draws the command line    *)
(* (flags) and the local environment, every action is one step of the      *)
(* handler between two points where the outside world answers (a remote    *)
(* call, the interactive prompt, the sleep of the poll loop).              *)
(*                                                                         *)
(* Time is counted in whole seconds.  Printed lines are kept as a set of   *)
(* message tags, remote calls as one counter per client method.           *)
(***************************************************************************)
EXTENDS Integers, Sequences, FiniteSets

VARIABLES
    cmd,            \* the command that was invoked
    pc,             \* position of the handler
    auth,           \* client._auth is not None
    opts,           \* the parsed command line and the local environment
    clock,          \* time.time()
    start_time,     \* _poll_publish_status: start_time
    elapsed,        \* _poll_publish_status: elapsed (last value computed)
    current_status, \* _poll_publish_status: current_status
    sleeps,         \* number of time.sleep(PUBLISH_POLL_INTERVAL) calls made
    answered,       \* number of non-terminal statuses the server has answered
    drift,          \* seconds the clock advanced outside exact poll sleeps
    calls,          \* client method -> number of invocations
    sent,           \* keyword arguments of the last mutating call
    failure,        \* outcome of the last remote call
    body,           \* shape of "detail" in the body of the last HTTP error
    prompts,        \* number of typer.confirm prompts shown
    answer,         \* what the user answered to the prompt ("none": no prompt)
    output,         \* set of messages printed on the console
    exit_code,      \* process exit code, -1 while the command runs
    tree,           \* create_tarball: entries of the source directory
    archive,        \* create_tarball: names of the members of the tarball
    deployment,     \* deploy: deploy_result.status of the answer ("none": no answer)
    list_opts,      \* list commands: --installed, a query, table output
    items,          \* list commands: len(result.items) of the answer, -1 before
    environ,        \* init: os.environ.get(TEMPLATE_PATH_ENV) ("unset": None)
    local_template, \* init: the local checkout with its copier.yml exists
    project_exists, \* init: project_dir.exists()
    template_source,\* init: template_source
    copy_args,      \* init: keyword arguments of copier.run_copy
    builds,         \* rollback: statuses of the build history, newest first
    version,        \* rollback: the --version option, 0 when it is not given
    target,         \* rollback: version rollback_provider was called with
    cred_exists,    \* the credentials file exists
    cred_lines,     \* the lines of the credentials file, <<context, token>>
    current_context,\* config file: current_context
    contexts,       \* config file: contexts, name -> api_url
    resource_id,    \* parse_resource_id: the argument
    parsed,         \* parse_resource_id: the result
    manifest,       \* apply: the documents parsed from the manifest file
    files,          \* apply: the paths that exist on disk
    next_doc,       \* apply: index of the document the loop is at
    submitted       \* apply: the resources apply_resource was called with

pollVars == <<clock, start_time, elapsed, current_status, sleeps, answered,
              drift>>
tarVars == <<tree, archive>>
promptVars == <<prompts, answer>>
listVars == <<list_opts, items>>
initVars == <<environ, local_template, project_exists, template_source,
              copy_args>>
rollbackVars == <<builds, version, target>>
credVars == <<cred_exists, cred_lines>>
configVars == <<current_context, contexts>>
parseVars == <<resource_id, parsed>>
applyVars == <<manifest, files, next_doc, submitted>>
extVars == <<deployment, listVars, initVars, rollbackVars, credVars,
             configVars, parseVars, applyVars>>

vars == <<cmd, pc, auth, opts, clock, start_time, elapsed, current_status,
          sleeps, answered, drift, calls, sent, failure, prompts, answer, output,
          exit_code, tree, archive, extVars, body>>

---------------------------------------------------------------------------
(* Program constants                                                       *)

PUBLISH_POLL_INTERVAL == 2
PUBLISH_POLL_TIMEOUT == 600

(* Bounds of the model                                                     *)

\* total number of seconds by which remote calls and oversleeping may move
\* the clock beyond the exact poll intervals
MaxDrift == 2

---------------------------------------------------------------------------
(* The remote API client, seen from the CLI                                *)

Methods == {"publish_provider", "get_publish_status", "get_provider",
            "install_provider", "uninstall_provider", "upgrade_provider",
            "deploy_provider", "delete_provider",
            "get_store_provider", "install_store_provider",
            "uninstall_store_provider", "upgrade_store_provider",
            "list_providers", "list_installed_providers",
            "list_store_providers", "list_builds", "rollback_provider"}

\* HTTP status codes a call may be rejected with (httpx.HTTPStatusError)
HttpErrors == {404, 409, 413, 422, 500}

\* what a remote call can do: return, raise HTTPStatusError(code), or raise
\* another exception (transport level)
Returned == [kind |-> "ok", code |-> 0]
Transport == [kind |-> "transport", code |-> 0]
HttpError(c) == [kind |-> "http", code |-> c]
IsHttp(o) == o.kind = "http"
Outcomes == {Returned, Transport} \cup {HttpError(c) : c \in HttpErrors}

\* the body of an HTTP error: not JSON ("nojson", "empty" when there is no
\* text at all), JSON that is not an object, an object without "detail",
\* or "detail" being a string, a dict with or without "message", a list
\* (the validation errors of a 422) or null
Details == {"nojson", "empty", "nonobject", "absent", "str", "dict_message",
            "dict", "list", "null"}

\* the statuses of a build that are not terminal for the poll loop; "None"
\* is getattr(build_status, "status", None) of an answer without the field
NonTerminal == {"pending", "building", "None"}
Terminal == {"published", "failed"}
Statuses == NonTerminal \cup Terminal

NoCalls == [m \in Methods |-> 0]
Call(m) == [calls EXCEPT ![m] = @ + 1]
RemoteCalls == calls["publish_provider"] + calls["get_publish_status"]
    + calls["get_provider"] + calls["install_provider"]
    + calls["uninstall_provider"] + calls["upgrade_provider"]
    + calls["deploy_provider"] + calls["delete_provider"]
    + calls["get_store_provider"] + calls["install_store_provider"]
    + calls["uninstall_store_provider"] + calls["upgrade_store_provider"]
    + calls["list_providers"] + calls["list_installed_providers"]
    + calls["list_store_providers"] + calls["list_builds"]
    + calls["rollback_provider"]

NoSent == [method |-> "none", force |-> FALSE, cascade |-> FALSE]

\* raise typer.Exit(code) / return from the handler
Exit(code, msgs) ==
    /\ pc' = "done"
    /\ exit_code' = code
    /\ output' = output \cup msgs

---------------------------------------------------------------------------
(* providers.py: _require_auth                                             *)

\* mutant: the check is missing
_require_auth_skipped == TRUE

_require_auth == auth

AuthMsg == {"Authentication required"}

---------------------------------------------------------------------------
(* providers.py: publish                                                   *)

\* lines 485-510: local validation, authentication, tarball
publish_begin ==
    /\ cmd = "publish" /\ pc = "start"
    /\ IF ~opts.detected
         THEN Exit(1, {"Could not detect provider package"})
       ELSE IF ~opts.dir_exists
         THEN Exit(1, {"Directory not found"})
       ELSE IF ~_require_auth
         THEN Exit(1, AuthMsg)
       ELSE IF ~opts.local_ok
         THEN Exit(1, {"Traceback"})
       ELSE /\ pc' = "upload"
            /\ output' = output \cup {"Publishing provider", "Created tarball"}
            /\ UNCHANGED exit_code
    /\ UNCHANGED <<cmd, auth, opts, pollVars, calls, sent, failure, promptVars,
                   tarVars, extVars, body>>

\* mutant: the 409 branch is missing and a conflict gets the generic message
publish_except_no_conflict_branch(o, newcalls) ==
    /\ calls' = newcalls
    /\ failure' = o
    /\ IF IsHttp(o) /\ o.code = 413
         THEN Exit(1, {"Tarball is too large"})
         ELSE Exit(1, {"Error"})

\* lines 535-553: the two except clauses around upload and polling
publish_except(o, newcalls) ==
    /\ calls' = newcalls
    /\ failure' = o
    /\ IF IsHttp(o)
         THEN IF o.code = 409
                THEN Exit(1, {"source hash already exists", "Use --force"})
              ELSE IF o.code = 413
                THEN Exit(1, {"Tarball is too large"})
              ELSE Exit(1, {"Error"})
         ELSE Exit(1, {"Error"})

\* mutant: the --no-wait return is missing
publish_uploaded_always_polls ==
    /\ start_time' = clock'
    /\ pc' = "poll_fetch"
    /\ output' = output \cup {"Published"}
    /\ UNCHANGED exit_code

\* lines 525-533: after the upload has returned; line 564 is the first
\* statement of _poll_publish_status
publish_uploaded ==
    IF ~opts.wait
      THEN /\ Exit(0, {"Published", "Build running in background"})
           /\ UNCHANGED start_time
      ELSE /\ start_time' = clock'
           /\ pc' = "poll_fetch"
           /\ output' = output \cup {"Published"}
           /\ UNCHANGED exit_code

\* lines 512-523: the upload
publish_upload ==
    /\ cmd = "publish" /\ pc = "upload"
    /\ sent' = [NoSent EXCEPT !.method = "publish_provider", !.force = opts.force]
    /\ \E o \in Outcomes, d \in 0 .. (MaxDrift - drift) :
        /\ clock' = clock + d
        /\ drift' = drift + d
        /\ IF o = Returned
             THEN /\ calls' = Call("publish_provider")
                  /\ failure' = Returned
                  /\ publish_uploaded
             ELSE /\ publish_except(o, Call("publish_provider"))
                  /\ UNCHANGED start_time
    /\ UNCHANGED <<cmd, auth, opts, elapsed, current_status, sleeps, answered,
                   promptVars, tarVars, extVars, body>>

---------------------------------------------------------------------------
(* providers.py: _poll_publish_status                                      *)

\* mutant: an answer without a status ends the loop as well
IsTerminal_or_missing(s) == s \in {"published", "failed", "None"}

\* lines 578-579
IsTerminal(s) == s \in {"published", "failed"}

\* mutant: the ceiling itself already counts as a timeout
TimedOut_inclusive(e) == e >= PUBLISH_POLL_TIMEOUT

\* line 583
TimedOut(e) == e > PUBLISH_POLL_TIMEOUT

\* mutant: the success status is compared with the build enum's "success"
poll_report_success_enum(s) ==
    IF s = "success" THEN Exit(0, {"Build successful"})
    ELSE IF s = "failed" THEN Exit(1, {"Build failed"})
    ELSE Exit(0, {"Build status"})

\* mutant: a failed build is printed but typer.Exit(1) is not raised
poll_report_failed_returns(s) ==
    IF s = "published" THEN Exit(0, {"Build successful"})
    ELSE IF s = "failed" THEN Exit(0, {"Build failed"})
    ELSE Exit(0, {"Build status"})

\* lines 590-596: after the loop
poll_report(s) ==
    IF s = "published" THEN Exit(0, {"Build successful"})
    ELSE IF s = "failed" THEN Exit(1, {"Build failed"})
    ELSE Exit(0, {"Build status"})

\* mutant: the time is measured from the previous iteration
Elapsed_since_last(now) == now - clock

\* line 581
Elapsed(now) == now - start_time

\* mutant: an error of the fetch is swallowed and the loop polls again
poll_raise_retry(o, newcalls) ==
    /\ calls' = newcalls
    /\ failure' = o
    /\ pc' = "poll_sleep"
    /\ UNCHANGED <<current_status, elapsed, answered, output, exit_code>>

\* line 575: the fetch is inside no try of the loop, what it raises leaves
\* _poll_publish_status and reaches the except clauses of publish
poll_raise(o, newcalls) ==
    /\ publish_except(o, newcalls)
    /\ UNCHANGED <<current_status, elapsed, answered>>

\* mutant: the timeout is tested before the status
poll_fetch_timeout_first ==
    /\ cmd = "publish" /\ pc = "poll_fetch"
    /\ \E o \in Outcomes, s \in Statuses, d \in 0 .. (MaxDrift - drift) :
        /\ clock' = clock + d
        /\ drift' = drift + d
        /\ IF o = Returned
             THEN /\ calls' = Call("get_publish_status")
                  /\ failure' = Returned
                  /\ current_status' = s
                  /\ answered' = IF s \in Terminal THEN answered ELSE answered + 1
                  /\ elapsed' = Elapsed(clock')
                  /\ IF TimedOut(elapsed')
                       THEN Exit(1, {"Build timed out"})
                     ELSE IF IsTerminal(s)
                       THEN poll_report(s)
                       ELSE /\ pc' = "poll_sleep"
                            /\ output' = output \cup {"Building..."}
                            /\ UNCHANGED exit_code
             ELSE /\ s = "pending"
                  /\ poll_raise(o, Call("get_publish_status"))
    /\ UNCHANGED <<cmd, auth, opts, start_time, sleeps, sent, promptVars,
                   tarVars, extVars, body>>

\* lines 574-587: one status fetch and what the loop does with its answer
poll_fetch ==
    /\ cmd = "publish" /\ pc = "poll_fetch"
    /\ \E o \in Outcomes, s \in Statuses, d \in 0 .. (MaxDrift - drift) :
        /\ clock' = clock + d
        /\ drift' = drift + d
        /\ IF o = Returned
             THEN /\ calls' = Call("get_publish_status")
                  /\ failure' = Returned
                  /\ current_status' = s
                  /\ answered' = IF s \in Terminal THEN answered ELSE answered + 1
                  /\ IF IsTerminal(s)
                       THEN /\ poll_report(s)
                            /\ UNCHANGED elapsed
                       ELSE /\ elapsed' = Elapsed(clock')
                            /\ IF TimedOut(elapsed')
                                 THEN Exit(1, {"Build timed out"})
                                 ELSE /\ pc' = "poll_sleep"
                                      /\ output' = output \cup {"Building..."}
                                      /\ UNCHANGED exit_code
             ELSE /\ s = "pending"
                  /\ poll_raise(o, Call("get_publish_status"))
    /\ UNCHANGED <<cmd, auth, opts, start_time, sleeps, sent, promptVars, tarVars, extVars, body>>

\* mutant: the tarball is uploaded again before the next fetch
poll_sleep_uploads_again ==
    /\ cmd = "publish" /\ pc = "poll_sleep"
    /\ \E d \in 0 .. (MaxDrift - drift) :
        /\ clock' = clock + PUBLISH_POLL_INTERVAL + d
        /\ drift' = drift + d
    /\ sleeps' = sleeps + 1
    /\ calls' = Call("publish_provider")
    /\ pc' = "poll_fetch"
    /\ UNCHANGED <<cmd, auth, opts, start_time, elapsed, current_status,
                   answered, sent, failure, promptVars, output, exit_code,
                   tarVars, extVars, body>>

\* line 588: time.sleep(PUBLISH_POLL_INTERVAL)
poll_sleep ==
    /\ cmd = "publish" /\ pc = "poll_sleep"
    /\ \E d \in 0 .. (MaxDrift - drift) :
        /\ clock' = clock + PUBLISH_POLL_INTERVAL + d
        /\ drift' = drift + d
    /\ sleeps' = sleeps + 1
    /\ pc' = "poll_fetch"
    /\ UNCHANGED <<cmd, auth, opts, start_time, elapsed, current_status, calls,
                   answered, sent, failure, promptVars, output, exit_code, tarVars, extVars, body>>

---------------------------------------------------------------------------
(* The publish command as a specification                                  *)

\* the state of the parts of the program a command does not touch
IdleDeploy == deployment = "none"
NoListOpts == [installed |-> FALSE, query |-> "none", table |-> TRUE]
IdleList == list_opts = NoListOpts /\ items = -1
NoCopy == [data |-> {}, defaults |-> FALSE, vcs_ref |-> "none"]
IdleInit ==
    /\ environ = "unset" /\ local_template = FALSE /\ project_exists = FALSE
    /\ template_source = "" /\ copy_args = NoCopy
IdleRollback == builds = <<>> /\ version = 0 /\ target = 0
IdleCred == cred_exists = FALSE /\ cred_lines = <<>>
IdleConfig ==
    /\ current_context = "default"
    /\ contexts = [n \in {"default"} |-> "https://api.pragmatiks.io"]
NoParse == [ok |-> FALSE, provider |-> <<>>, resource |-> <<>>]
IdleParse == resource_id = <<>> /\ parsed = NoParse
IdleApply ==
    /\ manifest = <<>> /\ files = {} /\ next_doc = 1 /\ submitted = <<>>
InitExt ==
    /\ IdleDeploy /\ IdleList /\ IdleInit /\ IdleRollback /\ IdleCred
    /\ IdleConfig /\ IdleParse /\ IdleApply

PublishOpts == [detected : BOOLEAN, dir_exists : BOOLEAN, local_ok : BOOLEAN,
                wait : BOOLEAN, force : BOOLEAN, yes : BOOLEAN,
                cascade : BOOLEAN]

InitCommon ==
    /\ pc = "start"
    /\ auth \in BOOLEAN
    /\ clock = 0 /\ start_time = 0 /\ elapsed = 0
    /\ current_status = "None"
    /\ sleeps = 0 /\ answered = 0 /\ drift = 0
    /\ calls = NoCalls
    /\ sent = NoSent
    /\ failure = Returned
    /\ body = "none"
    /\ prompts = 0 /\ answer = "none"
    /\ output = {}
    /\ exit_code = -1
    /\ tree = {} /\ archive = {}

Init ==
    /\ cmd = "publish"
    /\ opts \in {o \in PublishOpts : ~o.yes /\ ~o.cascade}
    /\ InitCommon
    /\ InitExt

Next == publish_begin \/ publish_upload \/ poll_fetch \/ poll_sleep

Spec == Init /\ [][Next]_vars

---------------------------------------------------------------------------
(* Steps the install, uninstall, upgrade, delete and deploy handlers share *)

cmdFrame == UNCHANGED <<cmd, auth, opts, pollVars, tarVars, extVars>>

\* the client method m was invoked and answered with o
Answer(m, o) ==
    /\ calls' = Call(m)
    /\ failure' = o
    /\ body' \in IF IsHttp(o) THEN Details ELSE {"none"}

\* an exception no except clause of the handler catches
Crash == Exit(1, {"Traceback"})

\* providers.py, lines 228-238: which text is returned for a body
_format_api_error(d) ==
    CASE d \in {"nojson", "nonobject", "absent"} -> "response.text"
      [] d = "empty" -> "str(error)"
      [] d = "str" -> "detail"
      [] d = "dict_message" -> "message"
      [] d = "dict" -> "str(error)"
      [] OTHER -> "str(detail)"

\* store.py, lines 35-43: detail.get of a detail that is neither a string
\* nor a dict raises AttributeError outside the try
store_format_api_error(d) ==
    CASE d \in {"nojson", "nonobject", "absent"} -> "response.text"
      [] d = "empty" -> "str(error)"
      [] d = "str" -> "detail"
      [] d = "dict_message" -> "message"
      [] d = "dict" -> "str(error)"
      [] OTHER -> "raises"

\* console.print(f"Error: {_format_api_error(e)}"); raise typer.Exit(1), in
\* an except clause of store.py
store_error ==
    IF store_format_api_error(body') = "raises" THEN Crash
    ELSE Exit(1, {"Error"})

\* what the user can answer to typer.confirm: yes, no, or end of input
Answers == {"y", "n", "abort"}

\* mutant: the answer of the prompt is not looked at
Confirm_ignores_answer(bypass, nextpc) ==
    IF bypass
      THEN /\ pc' = nextpc
           /\ UNCHANGED <<prompts, answer, output, exit_code>>
      ELSE /\ prompts' = prompts + 1
           /\ answer' \in Answers
           /\ pc' = nextpc
           /\ UNCHANGED <<output, exit_code>>

\* `if not yes: confirm = typer.confirm(...); if not confirm: ... Exit(0)`
Confirm(bypass, nextpc) ==
    IF bypass
      THEN /\ pc' = nextpc
           /\ UNCHANGED <<prompts, answer, output, exit_code>>
      ELSE /\ prompts' = prompts + 1
           /\ \E a \in Answers :
             /\ answer' = a
             /\ IF a = "y"
                  THEN /\ pc' = nextpc
                       /\ UNCHANGED <<output, exit_code>>
                ELSE IF a = "n"
                  THEN Exit(0, {"Cancelled."})
                ELSE Exit(1, {"Aborted!"})

\* the command goes on to its next step without printing a result
Goto(nextpc, msgs) ==
    /\ pc' = nextpc
    /\ output' = output \cup msgs
    /\ UNCHANGED exit_code

---------------------------------------------------------------------------
(* providers.py: install                                                   *)

install_begin ==
    /\ cmd = "install" /\ pc = "start"
    /\ IF ~_require_auth THEN Exit(1, AuthMsg) ELSE Goto("lookup", {})
    /\ UNCHANGED <<calls, sent, failure, body, promptVars>>
    /\ cmdFrame

\* mutant: a failed lookup is ignored and the command goes on
install_lookup_ignores_failure ==
    /\ cmd = "install" /\ pc = "lookup"
    /\ \E o \in Outcomes :
        /\ Answer("get_provider", o)
        /\ IF o = Returned THEN Goto("confirm", {"Provider:"})
           ELSE Goto("confirm", {})
    /\ UNCHANGED <<sent, promptVars>>
    /\ cmdFrame

install_lookup ==
    /\ cmd = "install" /\ pc = "lookup"
    /\ \E o \in Outcomes :
        /\ Answer("get_provider", o)
        /\ IF o = Returned THEN Goto("confirm", {"Provider:"})
           ELSE IF IsHttp(o) /\ o.code = 404
             THEN Exit(1, {"not found in the store"})
           ELSE IF IsHttp(o) THEN Exit(1, {"Error"})
           ELSE Crash
    /\ UNCHANGED <<sent, promptVars>>
    /\ cmdFrame

install_confirm ==
    /\ cmd = "install" /\ pc = "confirm"
    /\ Confirm(opts.yes, "call")
    /\ UNCHANGED <<calls, sent, failure, body>>
    /\ cmdFrame

\* mutant: the conflict of install is reported like any other HTTP error
install_call_generic_conflict ==
    /\ cmd = "install" /\ pc = "call"
    /\ sent' = [NoSent EXCEPT !.method = "install_provider"]
    /\ \E o \in Outcomes :
        /\ Answer("install_provider", o)
        /\ IF o = Returned THEN Exit(0, {"Installed"})
           ELSE IF IsHttp(o) THEN Exit(1, {"Error"})
           ELSE Crash
    /\ UNCHANGED promptVars
    /\ cmdFrame

install_call ==
    /\ cmd = "install" /\ pc = "call"
    /\ sent' = [NoSent EXCEPT !.method = "install_provider"]
    /\ \E o \in Outcomes :
        /\ Answer("install_provider", o)
        /\ IF o = Returned THEN Exit(0, {"Installed"})
           ELSE IF IsHttp(o) /\ o.code = 409
             THEN Exit(1, {"already installed"})
           ELSE IF IsHttp(o) THEN Exit(1, {"Error"})
           ELSE Crash
    /\ UNCHANGED promptVars
    /\ cmdFrame

---------------------------------------------------------------------------
(* providers.py: uninstall                                                 *)

uninstall_begin ==
    /\ cmd = "uninstall" /\ pc = "start"
    /\ IF ~_require_auth THEN Exit(1, AuthMsg)
       ELSE Goto("confirm", IF opts.cascade THEN {"Provider:", "--cascade will delete"}
                                            ELSE {"Provider:"})
    /\ UNCHANGED <<calls, sent, failure, body, promptVars>>
    /\ cmdFrame

uninstall_confirm ==
    /\ cmd = "uninstall" /\ pc = "confirm"
    /\ Confirm(opts.yes, "call")
    /\ UNCHANGED <<calls, sent, failure, body>>
    /\ cmdFrame

uninstall_call ==
    /\ cmd = "uninstall" /\ pc = "call"
    /\ sent' = [NoSent EXCEPT !.method = "uninstall_provider",
                              !.cascade = opts.cascade]
    /\ \E o \in Outcomes :
        /\ Answer("uninstall_provider", o)
        /\ IF o = Returned THEN Exit(0, {"Uninstalled"})
           ELSE IF IsHttp(o) /\ o.code = 404
             THEN Exit(1, {"not installed"})
           ELSE IF IsHttp(o) /\ o.code = 409
             THEN Exit(1, {"has active resources", "Use --cascade"})
           ELSE IF IsHttp(o) THEN Exit(1, {"Error"})
           ELSE Crash
    /\ UNCHANGED promptVars
    /\ cmdFrame

---------------------------------------------------------------------------
(* providers.py: upgrade                                                   *)

upgrade_begin ==
    /\ cmd = "upgrade" /\ pc = "start"
    /\ IF ~_require_auth THEN Exit(1, AuthMsg) ELSE Goto("confirm", {"Upgrading:"})
    /\ UNCHANGED <<calls, sent, failure, body, promptVars>>
    /\ cmdFrame

upgrade_confirm ==
    /\ cmd = "upgrade" /\ pc = "confirm"
    /\ Confirm(opts.yes, "call")
    /\ UNCHANGED <<calls, sent, failure, body>>
    /\ cmdFrame

upgrade_call ==
    /\ cmd = "upgrade" /\ pc = "call"
    /\ sent' = [NoSent EXCEPT !.method = "upgrade_provider"]
    /\ \E o \in Outcomes :
        /\ Answer("upgrade_provider", o)
        /\ IF o = Returned THEN Exit(0, {"Upgraded"})
           ELSE IF IsHttp(o) /\ o.code = 404
             THEN Exit(1, {"not installed"})
           ELSE IF IsHttp(o) /\ o.code = 409
             THEN Exit(1, {"already on the requested version"})
           ELSE IF IsHttp(o) THEN Exit(1, {"Error"})
           ELSE Crash
    /\ UNCHANGED promptVars
    /\ cmdFrame

---------------------------------------------------------------------------
(* providers.py: deploy                                                    *)

deploy_begin ==
    /\ cmd = "deploy" /\ pc = "start"
    /\ IF ~_require_auth
         THEN Exit(1, {"Deploying provider"} \cup AuthMsg)
         ELSE Goto("call", {"Deploying provider"})
    /\ UNCHANGED <<calls, sent, failure, body, promptVars>>
    /\ cmdFrame

\* DeploymentStatus of the answer of deploy_provider
DeploymentStatuses == {"pending", "progressing", "available", "failed"}

deployFrame ==
    UNCHANGED <<cmd, auth, opts, pollVars, tarVars, listVars, initVars,
                rollbackVars, credVars, configVars, parseVars, applyVars, promptVars>>

\* mutant: the handler stays in a poll loop while the rollout is not terminal
deploy_call_waits ==
    /\ cmd = "deploy" /\ pc = "call"
    /\ sent' = [NoSent EXCEPT !.method = "deploy_provider"]
    /\ \E o \in Outcomes :
        /\ Answer("deploy_provider", o)
        /\ IF o = Returned
             THEN \E st \in DeploymentStatuses :
                    /\ deployment' = st
                    /\ IF st \in {"available", "failed"}
                         THEN Exit(0, {"Deployment started", "Status:"})
                         ELSE Goto("poll", {"Deployment started", "Status:"})
             ELSE /\ UNCHANGED deployment
                  /\ IF IsHttp(o) THEN Exit(1, {"api error"})
                     ELSE Exit(1, {"Error"})
    /\ deployFrame

\* lines 978-994: the handler prints the status deploy_provider answered and
\* returns; it never looks at the status and never asks again
deploy_call ==
    /\ cmd = "deploy" /\ pc = "call"
    /\ sent' = [NoSent EXCEPT !.method = "deploy_provider"]
    /\ \E o \in Outcomes :
        /\ Answer("deploy_provider", o)
        /\ IF o = Returned
             THEN \E st \in DeploymentStatuses :
                    /\ deployment' = st
                    /\ Exit(0, {"Deployment started", "Status:"})
             ELSE /\ UNCHANGED deployment
                  /\ IF IsHttp(o) THEN Exit(1, {"api error"})
                     ELSE Exit(1, {"Error"})
    /\ deployFrame

---------------------------------------------------------------------------
(* providers.py: delete                                                    *)

delete_begin ==
    /\ cmd = "delete" /\ pc = "start"
    /\ IF ~_require_auth THEN Exit(1, AuthMsg)
       ELSE Goto("confirm", {"Provider:", "permanently delete"})
    /\ UNCHANGED <<calls, sent, failure, body, promptVars>>
    /\ cmdFrame

delete_confirm ==
    /\ cmd = "delete" /\ pc = "confirm"
    /\ Confirm(opts.yes, "call")
    /\ UNCHANGED <<calls, sent, failure, body>>
    /\ cmdFrame

delete_call ==
    /\ cmd = "delete" /\ pc = "call"
    /\ sent' = [NoSent EXCEPT !.method = "delete_provider"]
    /\ \E o \in Outcomes :
        /\ Answer("delete_provider", o)
        /\ IF o = Returned THEN Exit(0, {"deleted successfully"})
           ELSE Exit(1, {"Error"})
    /\ UNCHANGED promptVars
    /\ cmdFrame

---------------------------------------------------------------------------
(* store.py: install_provider, uninstall_provider, upgrade_provider        *)

store_install_begin ==
    /\ cmd = "store install" /\ pc = "start"
    /\ IF ~auth THEN Exit(1, AuthMsg) ELSE Goto("lookup", {})
    /\ UNCHANGED <<calls, sent, failure, body, promptVars>>
    /\ cmdFrame

store_install_lookup ==
    /\ cmd = "store install" /\ pc = "lookup"
    /\ \E o \in Outcomes :
        /\ Answer("get_store_provider", o)
        /\ IF o = Returned THEN Goto("confirm", {"Provider:"})
           ELSE IF IsHttp(o) /\ o.code = 404
             THEN Exit(1, {"not found in the store"})
           ELSE IF IsHttp(o) THEN store_error
           ELSE Crash
    /\ UNCHANGED <<sent, promptVars>>
    /\ cmdFrame

store_install_confirm ==
    /\ cmd = "store install" /\ pc = "confirm"
    /\ Confirm(opts.yes, "call")
    /\ UNCHANGED <<calls, sent, failure, body>>
    /\ cmdFrame

store_install_call ==
    /\ cmd = "store install" /\ pc = "call"
    /\ sent' = [NoSent EXCEPT !.method = "install_store_provider"]
    /\ \E o \in Outcomes :
        /\ Answer("install_store_provider", o)
        /\ IF o = Returned THEN Exit(0, {"Installed"})
           ELSE IF IsHttp(o) /\ o.code = 409
             THEN Exit(1, {"already installed"})
           ELSE IF IsHttp(o) THEN store_error
           ELSE Crash
    /\ UNCHANGED promptVars
    /\ cmdFrame

store_uninstall_begin ==
    /\ cmd = "store uninstall" /\ pc = "start"
    /\ IF ~auth THEN Exit(1, AuthMsg)
       ELSE Goto("confirm", IF opts.cascade THEN {"Provider:", "--cascade will delete"}
                                            ELSE {"Provider:"})
    /\ UNCHANGED <<calls, sent, failure, body, promptVars>>
    /\ cmdFrame

\* the bypass flag of `store uninstall` is --force
store_uninstall_confirm ==
    /\ cmd = "store uninstall" /\ pc = "confirm"
    /\ Confirm(opts.force, "call")
    /\ UNCHANGED <<calls, sent, failure, body>>
    /\ cmdFrame

store_uninstall_call ==
    /\ cmd = "store uninstall" /\ pc = "call"
    /\ sent' = [NoSent EXCEPT !.method = "uninstall_store_provider",
                              !.cascade = opts.cascade]
    /\ \E o \in Outcomes :
        /\ Answer("uninstall_store_provider", o)
        /\ IF o = Returned THEN Exit(0, {"Uninstalled"})
           ELSE IF IsHttp(o) /\ o.code = 404
             THEN Exit(1, {"not installed"})
           ELSE IF IsHttp(o) /\ o.code = 409
             THEN Exit(1, {"has active resources", "Use --cascade"})
           ELSE IF IsHttp(o) THEN store_error
           ELSE Crash
    /\ UNCHANGED promptVars
    /\ cmdFrame

store_upgrade_begin ==
    /\ cmd = "store upgrade" /\ pc = "start"
    /\ IF ~auth THEN Exit(1, AuthMsg) ELSE Goto("confirm", {"Upgrading:"})
    /\ UNCHANGED <<calls, sent, failure, body, promptVars>>
    /\ cmdFrame

store_upgrade_confirm ==
    /\ cmd = "store upgrade" /\ pc = "confirm"
    /\ Confirm(opts.yes, "call")
    /\ UNCHANGED <<calls, sent, failure, body>>
    /\ cmdFrame

store_upgrade_call ==
    /\ cmd = "store upgrade" /\ pc = "call"
    /\ sent' = [NoSent EXCEPT !.method = "upgrade_store_provider"]
    /\ \E o \in Outcomes :
        /\ Answer("upgrade_store_provider", o)
        /\ IF o = Returned THEN Exit(0, {"Upgraded"})
           ELSE IF IsHttp(o) /\ o.code = 404
             THEN Exit(1, {"not installed"})
           ELSE IF IsHttp(o) /\ o.code = 409
             THEN Exit(1, {"already on the requested version"})
           ELSE IF IsHttp(o) THEN store_error
           ELSE Crash
    /\ UNCHANGED promptVars
    /\ cmdFrame

---------------------------------------------------------------------------
(* The other commands as a specification, and all commands together        *)

Commands == {"install", "uninstall", "upgrade", "deploy", "delete",
             "store install", "store uninstall", "store upgrade"}

InitCmd ==
    /\ cmd \in Commands
    /\ opts \in {o \in PublishOpts :
                    o.detected /\ o.dir_exists /\ o.local_ok /\ o.wait}
    /\ InitCommon
    /\ InitExt

NextCmd ==
    \/ install_begin \/ install_lookup \/ install_confirm \/ install_call
    \/ uninstall_begin \/ uninstall_confirm \/ uninstall_call
    \/ upgrade_begin \/ upgrade_confirm \/ upgrade_call
    \/ deploy_begin \/ deploy_call
    \/ delete_begin \/ delete_confirm \/ delete_call
    \/ store_install_begin \/ store_install_lookup \/ store_install_confirm
    \/ store_install_call
    \/ store_uninstall_begin \/ store_uninstall_confirm \/ store_uninstall_call
    \/ store_upgrade_begin \/ store_upgrade_confirm \/ store_upgrade_call

SpecCmd == InitCmd /\ [][NextCmd]_vars

InitAll == Init \/ InitCmd

NextAll == Next \/ NextCmd

SpecAll == InitAll /\ [][NextAll]_vars

---------------------------------------------------------------------------
(* providers.py: create_tarball                                            *)
(*                                                                         *)
(* A name is the sequence of its characters, a path the sequence of its    *)
(* segments below the source directory (the archive's "." is <<>>).        *)

TARBALL_EXCLUDES == {
    <<".", "g", "i", "t">>,                                        \* .git
    <<"_", "_", "p", "y", "c", "a", "c", "h", "e", "_", "_">>,     \* __pycache__
    <<".", "v", "e", "n", "v">>,                                   \* .venv
    <<".", "e", "n", "v">>,                                        \* .env
    <<".", "p", "y", "t", "e", "s", "t", "_", "c", "a", "c", "h", "e">>, \* .pytest_cache
    <<".", "m", "y", "p", "y", "_", "c", "a", "c", "h", "e">>,     \* .mypy_cache
    <<".", "r", "u", "f", "f", "_", "c", "a", "c", "h", "e">>,     \* .ruff_cache
    <<"*", ".", "p", "y", "c">>,                                   \* *.pyc
    <<"*", ".", "p", "y", "o">>,                                   \* *.pyo
    <<"*", ".", "e", "g", "g", "-", "i", "n", "f", "o">>,          \* *.egg-info
    <<"d", "i", "s", "t">>,                                        \* dist
    <<"b", "u", "i", "l", "d">>,                                   \* build
    <<".", "t", "o", "x">>,                                        \* .tox
    <<".", "n", "o", "x">>                                         \* .nox
}

\* str.startswith / str.endswith
StartsWith(str, prefix) ==
    /\ Len(str) >= Len(prefix)
    /\ SubSeq(str, 1, Len(prefix)) = prefix
EndsWith(str, suffix) ==
    /\ Len(str) >= Len(suffix)
    /\ SubSeq(str, Len(str) - Len(suffix) + 1, Len(str)) = suffix

\* mutant: the pattern is compared with its `*`
PartExcluded_keeps_star(part) ==
    \/ part \in TARBALL_EXCLUDES
    \/ \E pattern \in TARBALL_EXCLUDES :
          StartsWith(pattern, <<"*">>) /\ EndsWith(part, pattern)

\* mutant: a segment that merely starts with an excluded name is dropped
PartExcluded_prefix(part) ==
    \/ \E name \in TARBALL_EXCLUDES : StartsWith(part, name)
    \/ \E pattern \in TARBALL_EXCLUDES :
          StartsWith(pattern, <<"*">>) /\ EndsWith(part, Tail(pattern))

\* lines 92-97: the two tests exclude_filter makes on one path segment
PartExcluded(part) ==
    \/ part \in TARBALL_EXCLUDES
    \/ \E pattern \in TARBALL_EXCLUDES :
          StartsWith(pattern, <<"*">>) /\ EndsWith(part, Tail(pattern))

\* lines 82-99: TRUE when exclude_filter returns None for the member `path`
exclude_filter(path) == \E i \in 1 .. Len(path) : PartExcluded(path[i])

Children(path) ==
    {e \in tree : Len(e.path) = Len(path) + 1
                  /\ SubSeq(e.path, 1, Len(path)) = path}

\* line 102: tar.add(source_dir, arcname=".", filter=exclude_filter); a
\* member the filter drops is not added and, if a directory, not descended
RECURSIVE TarAdd(_)
TarAdd(e) ==
    IF exclude_filter(e.path) THEN {}
    ELSE {e.path} \cup
         (IF e.dir THEN UNION {TarAdd(c) : c \in Children(e.path)} ELSE {})

SourceDir == [path |-> <<>>, dir |-> TRUE]

(* Bounds of the source directory                                          *)
MaxEntries == 3
MaxDepth == 2

\* the names files and directories of the source directory may have
SegmentNames == {
    <<".", "g", "i", "t">>,                                        \* .git
    <<".", "g", "i", "t", "i", "g", "n", "o", "r", "e">>,          \* .gitignore
    <<"_", "_", "p", "y", "c", "a", "c", "h", "e", "_", "_">>,     \* __pycache__
    <<"m", "a", "i", "n", ".", "p", "y">>,                         \* main.py
    <<"m", "a", "i", "n", ".", "p", "y", "c">>,                    \* main.pyc
    <<"x", ".", "e", "g", "g", "-", "i", "n", "f", "o">>,          \* x.egg-info
    <<"d", "i", "s", "t">>,                                        \* dist
    <<"b", "u", "i", "l", "d", "e", "r">>,                         \* builder
    <<".", "e", "n", "v", ".", "e", "x", "a", "m", "p", "l", "e">>, \* .env.example
    <<"s", "r", "c">>                                              \* src
}

\* the environment: one more file or directory in the source directory
write_source_entry ==
    /\ cmd = "create_tarball" /\ pc = "source"
    /\ Cardinality(tree) < MaxEntries
    /\ \E parent \in {SourceDir} \cup {e \in tree : e.dir},
          name \in SegmentNames, isdir \in BOOLEAN :
        /\ Len(parent.path) < MaxDepth
        /\ \A e \in tree : e.path # Append(parent.path, name)
        /\ tree' = tree \cup {[path |-> Append(parent.path, name), dir |-> isdir]}
    /\ UNCHANGED <<cmd, pc, auth, opts, pollVars, calls, sent, failure,
                   promptVars, output, exit_code, archive, extVars, body>>

\* lines 80-105
create_tarball ==
    /\ cmd = "create_tarball" /\ pc = "source"
    /\ archive' = TarAdd(SourceDir)
    /\ pc' = "done"
    /\ UNCHANGED <<cmd, auth, opts, pollVars, calls, sent, failure,
                   promptVars, output, exit_code, tree, extVars, body>>

InitTar ==
    /\ cmd = "create_tarball"
    /\ pc = "source"
    /\ auth = TRUE
    /\ opts = [detected |-> TRUE, dir_exists |-> TRUE, local_ok |-> TRUE,
               wait |-> TRUE, force |-> FALSE, yes |-> FALSE, cascade |-> FALSE]
    /\ clock = 0 /\ start_time = 0 /\ elapsed = 0
    /\ current_status = "None"
    /\ sleeps = 0 /\ answered = 0 /\ drift = 0
    /\ calls = NoCalls
    /\ sent = NoSent
    /\ failure = Returned
    /\ body = "none"
    /\ prompts = 0 /\ answer = "none"
    /\ output = {}
    /\ exit_code = -1
    /\ tree = {} /\ archive = {}
    /\ InitExt

NextTar == write_source_entry \/ create_tarball

SpecTar == InitTar /\ [][NextTar]_vars

---------------------------------------------------------------------------
(* Claims about publish and its poll loop, checked under Spec              *)

fetches == calls["get_publish_status"]
uploads == calls["publish_provider"]
Done == pc = "done"
\* the poll loop was left by its break on the status s
EndedOn(s) == Done /\ fetches >= 1 /\ failure = Returned /\ current_status = s
\* the poll loop was left by its timeout
EndedOnTimeout == Done /\ fetches >= 1 /\ failure = Returned
                       /\ current_status \in NonTerminal
\* a status fetch has raised
FetchRaised == fetches >= 1 /\ failure # Returned
\* the upload call was rejected or failed
UploadRaised(o) == uploads = 1 /\ fetches = 0 /\ failure = o
ErrorMsgs == {"Error", "source hash already exists", "Tarball is too large"}

\* C1: with --wait, n non-terminal statuses (none past the ceiling) and then
\* `published` make exactly n+1 status fetches with exactly n sleeps of the
\* poll interval between them, print 'Build successful' and end with exit
\* code 0.
C1_PublishedAfterNPlusOneFetches ==
    EndedOn("published") =>
        /\ opts.wait
        /\ fetches = answered + 1
        /\ sleeps = answered
        /\ clock - start_time >= sleeps * PUBLISH_POLL_INTERVAL
        /\ clock - start_time <= sleeps * PUBLISH_POLL_INTERVAL + drift
        /\ "Build successful" \in output
        /\ exit_code = 0

\* pending, pending, published: exactly 3 fetches
C1_Witness ==
    /\ EndedOn("published") /\ answered = 2 /\ fetches = 3 /\ sleeps = 2
    /\ exit_code = 0

\* C2: when no terminal status ever arrives, 'Build timed out' and exit code
\* 1 come at the first fetch after which the elapsed time strictly exceeds
\* PUBLISH_POLL_TIMEOUT; while the elapsed time is <= 600 s the loop goes on.
\* With sleeps of exactly the poll interval and instant fetches that is the
\* 302nd fetch.
C2_TimeoutStrictlyAfterCeiling ==
    /\ ("Build timed out" \in output) <=> EndedOnTimeout
    /\ EndedOnTimeout =>
          /\ exit_code = 1
          /\ clock - start_time > PUBLISH_POLL_TIMEOUT
          /\ fetches = sleeps + 1
          /\ (clock - start_time = sleeps * PUBLISH_POLL_INTERVAL =>
                 sleeps = (PUBLISH_POLL_TIMEOUT \div PUBLISH_POLL_INTERVAL) + 1)
    /\ pc = "poll_sleep" => clock - start_time <= PUBLISH_POLL_TIMEOUT

C2_Witness ==
    /\ EndedOnTimeout /\ exit_code = 1 /\ "Build timed out" \in output
    /\ clock - start_time = sleeps * PUBLISH_POLL_INTERVAL
    /\ fetches = (PUBLISH_POLL_TIMEOUT \div PUBLISH_POLL_INTERVAL) + 2

\* C3: with --wait, publish ends with exit code 0 exactly when polling ended
\* on `published`; when polling observes `failed` it prints 'Build failed'
\* and ends with exit code 1, whatever non-terminal statuses came before.
C3_ExitZeroIffPublished ==
    (Done /\ opts.wait) =>
        /\ (exit_code = 0) <=> EndedOn("published")
        /\ EndedOn("failed") => ("Build failed" \in output /\ exit_code = 1)

C3_Witness ==
    /\ EndedOn("failed") /\ opts.wait /\ answered = 2
    /\ "Build failed" \in output /\ exit_code = 1

\* C4: an error raised by a status fetch propagates at once: the command has
\* ended with an error message and exit code 1, no sleep followed the failing
\* fetch, and no fetch or sleep happens afterwards.
C4_FetchErrorPropagates ==
    /\ [](FetchRaised =>
             /\ Done /\ exit_code = 1
             /\ output \cap ErrorMsgs # {}
             /\ sleeps = fetches - 1)
    /\ [][FetchRaised => (calls' = calls /\ sleeps' = sleeps)]_vars

C4_Witness ==
    /\ FetchRaised /\ failure = Transport /\ fetches = 3 /\ sleeps = 2
    /\ Done /\ exit_code = 1

\* C5: with --no-wait a successful upload ends the command with exit code 0
\* and 'Build running in background', and the status fetch is never invoked.
C5_NoWaitNeverPolls ==
    ~opts.wait =>
        /\ fetches = 0
        /\ (uploads = 1 /\ failure = Returned) =>
              /\ Done /\ exit_code = 0
              /\ "Build running in background" \in output

C5_Witness ==
    /\ ~opts.wait /\ uploads = 1 /\ failure = Returned /\ Done
    /\ "Build running in background" \in output

\* C7: an upload rejected with HTTP 409 prints the 'source hash already
\* exists' warning with the '--force' hint and not the generic error, ends
\* with exit code 1, and the upload was invoked exactly once; force=True is
\* sent only when --force was passed.
C7_UploadConflictReported ==
    /\ uploads <= 1
    /\ sent.method = "publish_provider" => sent.force = opts.force
    /\ UploadRaised(HttpError(409)) =>
          /\ Done /\ exit_code = 1
          /\ {"source hash already exists", "Use --force"} \subseteq output
          /\ "Error" \notin output

C7_Witness ==
    /\ UploadRaised(HttpError(409)) /\ Done /\ opts.force /\ sent.force
    /\ "source hash already exists" \in output

---------------------------------------------------------------------------
(* Claims about authentication, checked under SpecAll                      *)

\* publish validates the package name and the directory before it asks for
\* the client
LocalValidationFails == cmd = "publish" /\ (~opts.detected \/ ~opts.dir_exists)
LocalValidationMsgs == {"Could not detect provider package", "Directory not found"}

---------------------------------------------------------------------------
(* Claims about install, uninstall, upgrade and delete, under SpecCmd      *)

\* the mutating client method of each confirmed command, and the flag that
\* bypasses its prompt
Gated == [c \in Commands \ {"deploy"} |->
    CASE c = "install" -> [method |-> "install_provider", bypass |-> opts.yes]
      [] c = "uninstall" -> [method |-> "uninstall_provider", bypass |-> opts.yes]
      [] c = "upgrade" -> [method |-> "upgrade_provider", bypass |-> opts.yes]
      [] c = "delete" -> [method |-> "delete_provider", bypass |-> opts.yes]
      [] c = "store install" ->
            [method |-> "install_store_provider", bypass |-> opts.yes]
      [] c = "store uninstall" ->
            [method |-> "uninstall_store_provider", bypass |-> opts.force]
      [] c = "store upgrade" ->
            [method |-> "upgrade_store_provider", bypass |-> opts.yes]]

\* C9: uninstall (and likewise install, upgrade and `providers delete`)
\* invokes its remote operation only if the confirmation was bypassed or
\* the prompt was answered yes; when the user declines no such call is made
\* and the command ends with 'Cancelled.' and exit code 0.
C9_ConfirmationGate ==
    cmd \in DOMAIN Gated =>
        /\ calls[Gated[cmd].method] >= 1 =>
              (Gated[cmd].bypass \/ answer = "y")
        /\ Gated[cmd].bypass => prompts = 0
        /\ answer = "n" =>
              /\ calls[Gated[cmd].method] = 0
              /\ Done /\ exit_code = 0
              /\ "Cancelled." \in output

C9_Witness ==
    /\ cmd = "store uninstall" /\ ~opts.force /\ opts.yes /\ answer = "n"
    /\ calls["uninstall_store_provider"] = 0
    /\ Done /\ exit_code = 0 /\ "Cancelled." \in output

\* the message each command prints for a conflict
ConflictMsg == [c \in Commands \ {"deploy", "delete"} |->
    CASE c \in {"install", "store install"} -> "already installed"
      [] c \in {"upgrade", "store upgrade"} -> "already on the requested version"
      [] c \in {"uninstall", "store uninstall"} -> "has active resources"]
ConflictMsgs == {ConflictMsg[c] : c \in DOMAIN ConflictMsg}

\* C10: an HTTP 409 answer to the install, upgrade or uninstall call gives
\* 'already installed', 'already on the requested version' and 'has active
\* resources' (with the '--cascade' hint) respectively, each with exit code
\* 1 and with the rejected operation invoked exactly once.
C10_ConflictMessages ==
    cmd \in DOMAIN ConflictMsg =>
        /\ calls[Gated[cmd].method] <= 1
        /\ (calls[Gated[cmd].method] = 1 /\ failure = HttpError(409)) =>
              /\ Done /\ exit_code = 1
              /\ output \cap ConflictMsgs = {ConflictMsg[cmd]}
              /\ "Error" \notin output
              /\ ("Use --cascade" \in output)
                    <=> (cmd \in {"uninstall", "store uninstall"})

C10_Witness ==
    /\ cmd = "install" /\ calls["install_provider"] = 1
    /\ calls["get_provider"] = 1
    /\ failure = HttpError(409) /\ Done /\ exit_code = 1
    /\ "already installed" \in output

---------------------------------------------------------------------------
(* Claims about create_tarball, checked under SpecTar                      *)

ExcludedNames == {p \in TARBALL_EXCLUDES : Head(p) # "*"}
ExcludedSuffixes == {Tail(p) : p \in {q \in TARBALL_EXCLUDES : Head(q) = "*"}}
SegmentExcluded(seg) ==
    \/ seg \in ExcludedNames
    \/ \E suffix \in ExcludedSuffixes : EndsWith(seg, suffix)
Below(path, dirpath) ==
    /\ Len(path) > Len(dirpath)
    /\ SubSeq(path, 1, Len(dirpath)) = dirpath

\* C6: no member of the archive has a path segment that equals an excluded
\* name or ends with the suffix of an excluded `*`-pattern, and nothing
\* below an excluded directory is in the archive.
C6_NoExcludedSegmentInArchive ==
    Done =>
        /\ \A member \in archive : \A i \in 1 .. Len(member) :
              ~SegmentExcluded(member[i])
        /\ \A d \in tree : \A e \in tree :
              (SegmentExcluded(d.path[Len(d.path)]) /\ Below(e.path, d.path))
                  => e.path \notin archive

C6_Witness ==
    /\ Done
    /\ tree = {[path |-> <<<<".", "g", "i", "t">>>>, dir |-> TRUE],
               [path |-> <<<<".", "g", "i", "t">>, <<"s", "r", "c">>>>, dir |-> FALSE],
               [path |-> <<<<"m", "a", "i", "n", ".", "p", "y", "c">>>>, dir |-> FALSE]}
    /\ archive = {<<>>}

---------------------------------------------------------------------------
(* The list commands: providers.py list_providers and                      *)
(* _list_installed_providers, store.py list_providers, search_providers    *)
(* and list_installed                                                      *)

\* largest number of entries a list answer holds
MaxItems == 2

\* the --query option or the query argument: absent, empty, or a text
Queries == {"none", "", "postgres"}

ListOpts == [installed : BOOLEAN, query : Queries, table : BOOLEAN]

NoOpts == [detected |-> TRUE, dir_exists |-> TRUE, local_ok |-> TRUE,
           wait |-> TRUE, force |-> FALSE, yes |-> FALSE, cascade |-> FALSE]

listFrame ==
    UNCHANGED <<cmd, auth, opts, pollVars, tarVars, deployment, list_opts,
                initVars, rollbackVars, credVars, configVars, parseVars, applyVars,
                promptVars, sent>>

\* mutant: a result without entries is rendered like any other
Render_no_empty_check(n, empty, table) ==
    IF list_opts.table THEN Exit(0, table)
    ELSE Exit(0, {"data"})

\* `if not result.items: print(empty); return`, then the table or the data
Render(n, empty, table) ==
    IF n = 0 THEN Exit(0, empty)
    ELSE IF list_opts.table THEN Exit(0, table)
    ELSE Exit(0, {"data"})

\* _print_store_list_table: the table, then the 'Showing a-b of n' footer
StoreTable == {"table", "Showing"}
\* _print_installed_table: the table only
InstalledTable == {"table"}

\* the answer of a list call: the call returns n entries, or it raises
ListAnswer(m, o, n) ==
    /\ Answer(m, o)
    /\ items' = IF o = Returned THEN n ELSE -1

\* providers.py lines 829-864, without --installed: no _require_auth
list_providers ==
    /\ cmd = "providers list" /\ pc = "start" /\ ~list_opts.installed
    /\ \E o \in Outcomes, n \in 0..MaxItems :
        /\ ListAnswer("list_providers", o, n)
        /\ IF o = Returned
             THEN Render(n, IF list_opts.query \in {"none", ""}
                              THEN {"No providers found."}
                              ELSE {"No providers found matching"},
                         StoreTable)
           ELSE IF IsHttp(o) THEN Exit(1, {"Error"})
           ELSE Crash
    /\ listFrame

\* providers.py lines 831-833 and 867-893
_list_installed_providers ==
    /\ cmd = "providers list" /\ pc = "start" /\ list_opts.installed
    /\ IF ~_require_auth
         THEN /\ Exit(1, AuthMsg)
              /\ UNCHANGED <<calls, failure, body, items>>
         ELSE \E o \in Outcomes, n \in 0..MaxItems :
                /\ ListAnswer("list_installed_providers", o, n)
                /\ IF o = Returned
                     THEN Render(n, {"No providers installed."}, InstalledTable)
                   ELSE IF IsHttp(o) THEN Exit(1, {"Error"})
                   ELSE Crash
    /\ listFrame

\* store.py lines 91-115
store_list_providers ==
    /\ cmd = "store list" /\ pc = "start"
    /\ \E o \in Outcomes, n \in 0..MaxItems :
        /\ ListAnswer("list_store_providers", o, n)
        /\ IF o = Returned
             THEN Render(n, {"No providers found."}, StoreTable)
           ELSE IF IsHttp(o) THEN store_error
           ELSE Crash
    /\ listFrame

\* store.py lines 150-175
store_search_providers ==
    /\ cmd = "store search" /\ pc = "start"
    /\ \E o \in Outcomes, n \in 0..MaxItems :
        /\ ListAnswer("list_store_providers", o, n)
        /\ IF o = Returned
             THEN Render(n, {"No providers found matching"}, StoreTable)
           ELSE IF IsHttp(o) THEN store_error
           ELSE Crash
    /\ listFrame

\* store.py lines 420-442
store_list_installed ==
    /\ cmd = "store installed" /\ pc = "start"
    /\ IF ~auth
         THEN /\ Exit(1, AuthMsg)
              /\ UNCHANGED <<calls, failure, body, items>>
         ELSE \E o \in Outcomes, n \in 0..MaxItems :
                /\ ListAnswer("list_installed_providers", o, n)
                /\ IF o = Returned
                     THEN Render(n, {"No providers installed."}, InstalledTable)
                   ELSE IF IsHttp(o) THEN store_error
                   ELSE Crash
    /\ listFrame

ListCommands == {"providers list", "store list", "store search",
                 "store installed"}

\* the command lines of the list commands: --installed and --query exist on
\* `providers list` only, `store search` takes the query as its argument
InitList ==
    /\ cmd \in ListCommands
    /\ opts = NoOpts
    /\ list_opts \in {lo \in ListOpts :
            /\ lo.installed => cmd = "providers list"
            /\ cmd \in {"store list", "store installed"} => lo.query = "none"
            /\ cmd = "store search" => lo.query # "none"}
    /\ items = -1
    /\ InitCommon
    /\ IdleDeploy /\ IdleInit /\ IdleRollback /\ IdleCred /\ IdleConfig
    /\ IdleParse /\ IdleApply

NextList ==
    \/ list_providers \/ _list_installed_providers
    \/ store_list_providers \/ store_search_providers \/ store_list_installed

SpecList == InitList /\ [][NextList]_vars

---------------------------------------------------------------------------
(* providers.py: get_template_source and init                              *)

DEFAULT_TEMPLATE_URL == "gh:pragmatiks/pragma-providers"

\* str(Path(__file__).parents[4] / "pragma-providers")
LocalTemplate == "/repo/pragma-providers"

\* os.environ.get(TEMPLATE_PATH_ENV): unset, empty, a path, a GitHub source
EnvTemplates == {"unset", "", "/custom/template/path", "gh:acme/template"}

\* template_source.startswith("gh:"), over the sources that can occur
StartsWithGh(src) == src \in {DEFAULT_TEMPLATE_URL, "gh:acme/template"}

\* lines 119-127; an empty value of the variable is falsy
get_template_source(env, local) ==
    IF env \notin {"unset", ""} THEN env
    ELSE IF local THEN LocalTemplate
    ELSE DEFAULT_TEMPLATE_URL

\* the options of init that end in the arguments of copier.run_copy
InitOpts == [description : BOOLEAN, author_name : BOOLEAN,
             author_email : BOOLEAN, defaults : BOOLEAN]

initFrame ==
    UNCHANGED <<cmd, auth, opts, pollVars, tarVars, deployment, listVars,
                rollbackVars, credVars, configVars, parseVars, applyVars, promptVars,
                calls, sent, failure, body, environ, local_template>>

\* lines 342-365
init_begin ==
    /\ cmd = "init" /\ pc = "start"
    /\ IF project_exists
         THEN /\ Exit(1, {"already exists"})
              /\ UNCHANGED <<template_source, copy_args>>
         ELSE /\ template_source' = get_template_source(environ, local_template)
              /\ copy_args' =
                    [data |-> {"name"}
                        \cup (IF opts.description THEN {"description"} ELSE {})
                        \cup (IF opts.author_name THEN {"author_name"} ELSE {})
                        \cup (IF opts.author_email THEN {"author_email"} ELSE {}),
                     defaults |-> opts.defaults,
                     vcs_ref |-> IF StartsWithGh(template_source')
                                   THEN "None" ELSE "HEAD"]
              /\ Goto("copy", {"Creating provider project", "Template:"})
    /\ UNCHANGED project_exists
    /\ initFrame

\* lines 366-395: copier.run_copy returns or raises
init_copy ==
    /\ cmd = "init" /\ pc = "copy"
    /\ \E copied \in BOOLEAN :
        /\ project_exists' = copied
        /\ IF copied THEN Exit(0, {"Created provider project", "Next steps:"})
           ELSE Exit(1, {"Error creating provider"})
    /\ UNCHANGED <<template_source, copy_args>>
    /\ initFrame

InitInit ==
    /\ cmd = "init"
    /\ opts \in InitOpts
    /\ environ \in EnvTemplates
    /\ local_template \in BOOLEAN
    /\ project_exists \in BOOLEAN
    /\ template_source = "" /\ copy_args = NoCopy
    /\ InitCommon
    /\ IdleDeploy /\ IdleList /\ IdleRollback /\ IdleCred /\ IdleConfig
    /\ IdleParse /\ IdleApply

NextInit == init_begin \/ init_copy

SpecInit == InitInit /\ [][NextInit]_vars

---------------------------------------------------------------------------
(* The rollback command (tests/test_providers.py, the rollback tests)      *)

\* longest build history list_builds answers with
MaxBuilds == 3

BuildStatuses == {"success", "failed", "pending"}

\* the histories: newest first, the newest build has the highest version
Histories ==
    {[i \in 1..n |-> [version |-> n + 1 - i, status |-> st[i]]] :
        n \in 0..MaxBuilds, st \in [1..MaxBuilds -> BuildStatuses]}

IsSuccess(b) == b.status = "success"

\* mutant: the second build of the history, whatever its status
previous_build_any(h) ==
    IF Len(h) < 2 THEN 0 ELSE h[2].version

\* the second-most-recent build whose status is success; 0 if there is none
previous_build(h) ==
    LET successful == SelectSeq(h, IsSuccess)
    IN  IF Len(successful) < 2 THEN 0 ELSE successful[2].version

rollbackFrame ==
    UNCHANGED <<cmd, auth, opts, pollVars, tarVars, deployment, listVars,
                initVars, credVars, configVars, parseVars, applyVars, promptVars, sent,
                builds>>

\* an explicit --version goes straight to the remote rollback
rollback_begin ==
    /\ cmd = "rollback" /\ pc = "start"
    /\ IF version # 0 THEN Goto("call", {"Rolling back provider", "Target version:"})
       ELSE Goto("history", {"Rolling back provider"})
    /\ UNCHANGED <<calls, failure, body, version, target>>
    /\ rollbackFrame

\* without --version: client.list_builds, then the target selection
rollback_history ==
    /\ cmd = "rollback" /\ pc = "history"
    /\ \E o \in Outcomes :
        /\ Answer("list_builds", o)
        /\ IF o # Returned
             THEN /\ Exit(1, {"Error"})
                  /\ UNCHANGED version
           ELSE IF previous_build(builds) = 0
             THEN /\ Exit(1, {"No previous successful build found"})
                  /\ UNCHANGED version
           ELSE /\ version' = previous_build(builds)
                /\ Goto("call", {"Target version:"})
    /\ UNCHANGED target
    /\ rollbackFrame

\* client.rollback_provider(provider_id, version)
rollback_call ==
    /\ cmd = "rollback" /\ pc = "call"
    /\ target' = version
    /\ \E o \in Outcomes :
        /\ Answer("rollback_provider", o)
        /\ IF o = Returned THEN Exit(0, {"Rollback initiated:"})
           ELSE Exit(1, {"Error"})
    /\ UNCHANGED version
    /\ rollbackFrame

InitRollback ==
    /\ cmd = "rollback"
    /\ opts = NoOpts
    /\ builds \in Histories
    /\ version \in 0..MaxBuilds
    /\ target = 0
    /\ InitCommon
    /\ IdleDeploy /\ IdleList /\ IdleInit /\ IdleCred /\ IdleConfig
    /\ IdleParse /\ IdleApply

NextRollback == rollback_begin \/ rollback_history \/ rollback_call

SpecRollback == InitRollback /\ [][NextRollback]_vars

---------------------------------------------------------------------------
(* The credential store: save_credentials and clear_credentials            *)
(* (tests/test_auth.py)                                                    *)

ContextNames == {"default", "production", "staging"}
Tokens == {"token_1", "token_2"}
\* clear_credentials(None)
None == "None"

Line(c, t) == [context |-> c, token |-> t]
HasEntry(lines, c) == \E i \in DOMAIN lines : lines[i].context = c

credFrame ==
    UNCHANGED <<pc, auth, opts, pollVars, tarVars, deployment, listVars,
                initVars, rollbackVars, configVars, parseVars, applyVars, promptVars,
                calls, sent, failure, body, output, exit_code>>

\* mutant: the line is appended even when the context has a line already
save_credentials_appends(t, c) ==
    /\ cmd' = "save_credentials"
    /\ cred_lines' = Append(cred_lines, Line(c, t))
    /\ cred_exists' = TRUE
    /\ credFrame

\* append or replace the `context=token` line and write the whole file
save_credentials(t, c) ==
    /\ cmd' = "save_credentials"
    /\ cred_lines' =
          IF HasEntry(cred_lines, c)
            THEN [i \in DOMAIN cred_lines |->
                     IF cred_lines[i].context = c THEN Line(c, t)
                     ELSE cred_lines[i]]
            ELSE Append(cred_lines, Line(c, t))
    /\ cred_exists' = TRUE
    /\ credFrame

\* mutant: the file is rewritten even when no line remains
clear_credentials_keeps_file(c) ==
    /\ cmd' = "clear_credentials"
    /\ IF ~cred_exists THEN UNCHANGED credVars
       ELSE IF c = None THEN cred_exists' = FALSE /\ cred_lines' = <<>>
       ELSE /\ cred_lines' = SelectSeq(cred_lines, LAMBDA l : l.context # c)
            /\ UNCHANGED cred_exists
    /\ credFrame

\* no context: delete the file; a context: remove its line and rewrite the
\* file, or delete the file when no line remains
clear_credentials(c) ==
    /\ cmd' = "clear_credentials"
    /\ IF ~cred_exists THEN UNCHANGED credVars
       ELSE IF c = None THEN cred_exists' = FALSE /\ cred_lines' = <<>>
       ELSE LET remaining == SelectSeq(cred_lines, LAMBDA l : l.context # c)
            IN  /\ cred_lines' = remaining
                /\ cred_exists' = (remaining # <<>>)
    /\ credFrame

InitCred ==
    /\ cmd = "auth"
    /\ opts = NoOpts
    /\ IdleCred
    /\ InitCommon
    /\ IdleDeploy /\ IdleList /\ IdleInit /\ IdleRollback /\ IdleConfig
    /\ IdleParse /\ IdleApply

NextCred ==
    \/ \E t \in Tokens, c \in ContextNames : save_credentials(t, c)
    \/ \E c \in ContextNames \cup {None} : clear_credentials(c)

SpecCred == InitCred /\ [][NextCred]_vars

---------------------------------------------------------------------------
(* The config commands set-context, use-context and delete-context         *)
(* (tests/test_config.py); one step is one invocation of the CLI           *)

ApiUrls == {"https://api.prod.com", "http://localhost:8000"}

configFrame ==
    UNCHANGED <<pc, auth, opts, pollVars, tarVars, deployment, listVars,
                initVars, rollbackVars, credVars, parseVars, applyVars, promptVars,
                calls, sent, failure, body>>

\* the invocation ends: what it printed and its exit code
Ran(name, code, msgs) ==
    /\ cmd' = name
    /\ exit_code' = code
    /\ output' = msgs

\* config set-context NAME --api-url URL: add or update the context
set_context(n, url) ==
    /\ contexts' = [m \in DOMAIN contexts \cup {n} |->
                        IF m = n THEN url ELSE contexts[m]]
    /\ UNCHANGED current_context
    /\ Ran("set-context", 0, {"configured"})
    /\ configFrame

\* config use-context NAME
use_context(n) ==
    /\ IF n \notin DOMAIN contexts
         THEN /\ Ran("use-context", 1, {"not found"})
              /\ UNCHANGED current_context
         ELSE /\ current_context' = n
              /\ Ran("use-context", 0, {"Switched to context"})
    /\ UNCHANGED contexts
    /\ configFrame

\* mutant: the current context can be deleted
delete_context_any(n) ==
    /\ IF n \notin DOMAIN contexts
         THEN /\ Ran("delete-context", 1, {"not found"})
              /\ UNCHANGED contexts
         ELSE /\ contexts' = [m \in DOMAIN contexts \ {n} |-> contexts[m]]
              /\ Ran("delete-context", 0, {"deleted"})
    /\ UNCHANGED current_context
    /\ configFrame

\* config delete-context NAME
delete_context(n) ==
    /\ IF n \notin DOMAIN contexts
         THEN /\ Ran("delete-context", 1, {"not found"})
              /\ UNCHANGED contexts
       ELSE IF n = current_context
         THEN /\ Ran("delete-context", 1, {"Cannot delete current context"})
              /\ UNCHANGED contexts
         ELSE /\ contexts' = [m \in DOMAIN contexts \ {n} |-> contexts[m]]
              /\ Ran("delete-context", 0, {"deleted"})
    /\ UNCHANGED current_context
    /\ configFrame

\* no config file: load_config gives the built-in default context
InitConfig ==
    /\ cmd = "config"
    /\ opts = NoOpts
    /\ IdleConfig
    /\ InitCommon
    /\ IdleDeploy /\ IdleList /\ IdleInit /\ IdleRollback /\ IdleCred
    /\ IdleParse /\ IdleApply

NextConfig ==
    \/ \E n \in ContextNames, url \in ApiUrls : set_context(n, url)
    \/ \E n \in ContextNames : use_context(n)
    \/ \E n \in ContextNames : delete_context(n)

SpecConfig == InitConfig /\ [][NextConfig]_vars

---------------------------------------------------------------------------
(* helpers: parse_resource_id (tests/test_helpers.py); an identifier is    *)
(* the sequence of its characters                                          *)

\* longest identifier
MaxIdLen == 4

Chars == {"a", "b", "/"}
ResourceIds == UNION {[1..n -> Chars] : n \in 0..MaxIdLen}

Slashes(s) == {i \in DOMAIN s : s[i] = "/"}

\* mutant: the identifier is split at its last '/'
parse_resource_id_rsplit(s) ==
    IF Slashes(s) = {} THEN NoParse
    ELSE LET i == CHOOSE k \in Slashes(s) : \A j \in Slashes(s) : j <= k
         IN  [ok |-> TRUE, provider |-> SubSeq(s, 1, i - 1),
              resource |-> SubSeq(s, i + 1, Len(s))]

\* `if "/" not in s: raise ValueError`, else s.split("/", 1)
parse_resource_id(s) ==
    IF Slashes(s) = {} THEN NoParse
    ELSE LET i == CHOOSE k \in Slashes(s) : \A j \in Slashes(s) : k <= j
         IN  [ok |-> TRUE, provider |-> SubSeq(s, 1, i - 1),
              resource |-> SubSeq(s, i + 1, Len(s))]

\* one call: the pair is returned or ValueError is raised
parse_call ==
    /\ cmd = "parse_resource_id" /\ pc = "start"
    /\ parsed' = parse_resource_id(resource_id)
    /\ IF parsed'.ok THEN Exit(0, {})
       ELSE Exit(1, {"Invalid resource ID format"})
    /\ UNCHANGED <<cmd, auth, opts, pollVars, tarVars, deployment, listVars,
                   initVars, rollbackVars, credVars, configVars, promptVars,
                   calls, sent, failure, body, resource_id, applyVars>>

InitParse ==
    /\ cmd = "parse_resource_id"
    /\ opts = NoOpts
    /\ resource_id \in ResourceIds
    /\ parsed = NoParse
    /\ InitCommon
    /\ IdleDeploy /\ IdleList /\ IdleInit /\ IdleRollback /\ IdleCred
    /\ IdleConfig /\ IdleApply

NextParse == parse_call

SpecParse == InitParse /\ [][NextParse]_vars

---------------------------------------------------------------------------
(* Claims about deploy and about failing remote calls, under SpecCmd       *)

\* the rollout statuses after which nothing changes any more
RolloutTerminal == {"available", "failed"}
\* what a handler prints when it reports a failed remote call
FailureMsgs == {"Error", "api error", "not found", "not found in the store",
                "not installed", "already installed", "already at version",
                "has active resources", "has dependent resources",
                "already on the requested version"}

\* C11 as claimed: deploy does not return while the deployment status is
\* still pending or progressing.
C11_Original ==
    (cmd = "deploy" /\ Done /\ exit_code = 0) => deployment \in RolloutTerminal

\* C11 (amended): deploy ends as soon as deploy_provider has answered: it
\* prints 'Deployment started' and the status of that answer, whatever the
\* status is, with exit code 0, after exactly one remote call, without a
\* status fetch and without a sleep.
C11_DeployReturnsAtOnce ==
    (cmd = "deploy" /\ calls["deploy_provider"] >= 1 /\ failure = Returned) =>
        /\ Done /\ exit_code = 0
        /\ deployment \in DeploymentStatuses
        /\ {"Deployment started", "Status:"} \subseteq output
        /\ RemoteCalls = 1
        /\ calls["get_publish_status"] = 0 /\ sleeps = 0

C11_Witness ==
    /\ cmd = "deploy" /\ Done /\ exit_code = 0
    /\ deployment = "progressing"
    /\ "Deployment started" \in output

\* C12: a failed remote call ends the command with a user-facing error
\* message and a non-zero exit code, and never as an unhandled exception.
C12_RemoteFailureReported ==
    (RemoteCalls >= 1 /\ failure # Returned) =>
        /\ Done /\ exit_code > 0
        /\ output \cap FailureMsgs # {}
        /\ "Traceback" \notin output

---------------------------------------------------------------------------
(* Claims about the list commands, under SpecList                          *)

NoProvidersMsgs == {"No providers found.", "No providers found matching",
                    "No providers installed."}
Rendered == {"table", "Showing", "data"}
ListCalls == calls["list_providers"] + calls["list_installed_providers"]
    + calls["list_store_providers"]

\* C13: `providers list` without authentication fails with exit code 1 and
\* prints 'Authentication required'.
C13_ListRequiresAuth ==
    (cmd = "providers list" /\ ~auth /\ Done) =>
        /\ exit_code = 1
        /\ "Authentication required" \in output

\* C14: when the remote list returns zero entries, every list command prints
\* a 'No providers ...' message, renders neither a table nor the 'Showing'
\* footer (nor the data), and ends with exit code 0.
C14_EmptyListMessage ==
    (cmd \in ListCommands /\ ListCalls = 1 /\ failure = Returned /\ items = 0) =>
        /\ Done /\ exit_code = 0
        /\ output \cap NoProvidersMsgs # {}
        /\ output \cap Rendered = {}

C14_Witness ==
    /\ cmd = "store search" /\ ListCalls = 1 /\ failure = Returned /\ items = 0
    /\ ~list_opts.table
    /\ Done /\ exit_code = 0 /\ output = {"No providers found matching"}

---------------------------------------------------------------------------
(* Claims about init, under SpecInit                                       *)

\* C15: with PRAGMA_PROVIDER_TEMPLATE unset and no local template checkout,
\* the template source is 'gh:pragmatiks/provider-template'.
C15_DefaultTemplateSource ==
    ("Template:" \in output /\ environ = "unset" /\ ~local_template) =>
        template_source = "gh:pragmatiks/provider-template"

---------------------------------------------------------------------------
(* Claims about rollback, under SpecRollback                               *)

\* positions of the successful builds of the history
SuccessAt == {i \in DOMAIN builds : builds[i].status = "success"}
\* the version of the successful build with exactly one successful build
\* that is more recent
SecondSuccess ==
    LET j == CHOOSE i \in SuccessAt :
                 Cardinality({k \in SuccessAt : k < i}) = 1
    IN  builds[j].version
\* the command was given no version and list_builds has answered
HistoryRead ==
    /\ cmd = "rollback" /\ calls["list_builds"] = 1
    /\ (failure = Returned \/ calls["rollback_provider"] = 1)

\* C16: rollback without a version calls the remote rollback with the
\* version of the second successful build of the history, newest first,
\* failed builds not counted; with fewer than two successful builds it
\* fails with 'No previous successful build found', exit code 1, and never
\* calls the remote rollback.
C16_RollbackTarget ==
    HistoryRead =>
        IF Cardinality(SuccessAt) >= 2
          THEN /\ "No previous successful build found" \notin output
               /\ version = SecondSuccess
               /\ Done => /\ calls["rollback_provider"] = 1
                           /\ target = SecondSuccess
          ELSE /\ Done /\ exit_code = 1
               /\ "No previous successful build found" \in output
               /\ calls["rollback_provider"] = 0

\* v3 success, v2 failed, v1 success: rollback was called with v1
C16_Witness ==
    /\ HistoryRead /\ Done /\ exit_code = 0
    /\ Len(builds) = 3 /\ builds[2].status = "failed"
    /\ Cardinality(SuccessAt) = 2
    /\ calls["rollback_provider"] = 1 /\ target = 1

---------------------------------------------------------------------------
(* Claims about the credential store, under SpecCred                       *)

\* the tokens the lines of the file give to context c
TokensOf(lines, c) == {lines[i].token : i \in {j \in DOMAIN lines : lines[j].context = c}}
\* the number of lines of context c
Entries(lines, c) == Cardinality({i \in DOMAIN lines : lines[i].context = c})

---------------------------------------------------------------------------
(* Claims about the config commands, under SpecConfig                      *)

\* C19: after every command current_context names a context of the
\* contexts map; delete-context of the current context is rejected with
\* 'Cannot delete current context', use-context and delete-context of an
\* unknown name with 'not found', each with exit code 1 and the stored
\* config unchanged.
C19_CurrentContextExists ==
    [][ /\ current_context' \in DOMAIN contexts'
        /\ \A n \in ContextNames :
              (delete_context(n) /\ n = current_context) =>
                  /\ exit_code' = 1
                  /\ "Cannot delete current context" \in output'
                  /\ UNCHANGED configVars
        /\ \A n \in ContextNames \ DOMAIN contexts :
              (use_context(n) \/ delete_context(n)) =>
                  /\ exit_code' = 1
                  /\ "not found" \in output'
                  /\ UNCHANGED configVars
      ]_vars

\* with two contexts configured, deleting the current one was rejected
C19_Witness ==
    /\ cmd = "delete-context" /\ exit_code = 1
    /\ output = {"Cannot delete current context"}
    /\ current_context = "production"
    /\ DOMAIN contexts = {"default", "production"}

---------------------------------------------------------------------------
(* Claims about parse_resource_id, under SpecParse                         *)

\* C20: an identifier s with a '/' parses to (p, r) where p has no '/' and
\* p + '/' + r = s; an identifier without '/', the empty one included,
\* fails with 'Invalid resource ID format'.
C20_SplitAtFirstSlash ==
    (cmd = "parse_resource_id" /\ Done) =>
        IF \E i \in DOMAIN resource_id : resource_id[i] = "/"
          THEN /\ parsed.ok /\ exit_code = 0
               /\ \A i \in DOMAIN parsed.provider : parsed.provider[i] # "/"
               /\ parsed.provider \o <<"/">> \o parsed.resource = resource_id
               /\ "Invalid resource ID format" \notin output
          ELSE /\ ~parsed.ok /\ exit_code = 1
               /\ "Invalid resource ID format" \in output

\* 'a/b/' gives ('a', 'b/')
C20_Witness ==
    /\ cmd = "parse_resource_id" /\ Done
    /\ resource_id = <<"a", "/", "b", "/">>
    /\ parsed = [ok |-> TRUE, provider |-> <<"a">>, resource |-> <<"b", "/">>]

---------------------------------------------------------------------------
(* Further claims about publish and its poll loop, under Spec              *)

\* the largest number of status fetches of one poll loop
MaxFetches == (PUBLISH_POLL_TIMEOUT \div PUBLISH_POLL_INTERVAL) + 2

\* C23: every iteration makes exactly one status fetch and then either
\* leaves the loop on `published` or `failed`, or fails with the timeout,
\* or sleeps and iterates again; the loop is never left normally on another
\* status, so 'Build status' is never printed, and a missing status is not
\* terminal.
C23_OneFetchPerIteration ==
    /\ "Build status" \notin output
    /\ pc = "poll_fetch" => (fetches = sleeps /\ failure = Returned)
    /\ pc = "poll_sleep" =>
          /\ fetches = sleeps + 1 /\ failure = Returned
          /\ current_status \in NonTerminal
          /\ elapsed <= PUBLISH_POLL_TIMEOUT
          /\ "Build timed out" \notin output
    /\ (Done /\ fetches >= 1) =>
          /\ fetches = sleeps + 1
          /\ failure = Returned =>
                IF current_status \in {"published", "failed"}
                  THEN "Build timed out" \notin output
                  ELSE /\ "Build timed out" \in output
                       /\ elapsed > PUBLISH_POLL_TIMEOUT

\* an answer without a status was taken as non-terminal: the loop sleeps
C23_Witness ==
    /\ pc = "poll_sleep" /\ current_status = "None" /\ fetches = 2
    /\ sleeps = 1

\* C24: the upload is invoked at most once, and once it has been invoked
\* the only client method the command invokes is get_publish_status.
C24_UploadOnceThenObserve ==
    [][ /\ uploads' <= 1
        /\ uploads = 1 =>
              \A m \in Methods \ {"get_publish_status"} : calls'[m] = calls[m]
      ]_vars

\* after three fetches the server answered with an error
C24_Witness ==
    /\ Done /\ uploads = 1 /\ fetches = 3 /\ failure = HttpError(500)
    /\ RemoteCalls = 4

\* C25: 'Build timed out' is reported only right after a fetch that returned
\* a non-terminal status, hence after at least one fetch; a fetch that
\* returns `published` or `failed` ends the loop with the report of that
\* status, however much time has passed.
C25_TerminalWinsOverTimeout ==
    /\ "Build timed out" \in output =>
          /\ fetches >= 1 /\ failure = Returned
          /\ current_status \in NonTerminal
    /\ (fetches >= 1 /\ failure = Returned /\ current_status = "published") =>
          /\ Done /\ exit_code = 0
          /\ "Build successful" \in output /\ "Build timed out" \notin output
    /\ (fetches >= 1 /\ failure = Returned /\ current_status = "failed") =>
          /\ Done /\ exit_code = 1
          /\ "Build failed" \in output /\ "Build timed out" \notin output

\* `published` arrived more than 600 s after the loop started
C25_Witness ==
    /\ EndedOn("published") /\ exit_code = 0
    /\ clock - start_time > PUBLISH_POLL_TIMEOUT
    /\ "Build timed out" \notin output

\* C26: when no fetch raises, the loop makes at most 302 status fetches;
\* it can sleep only after fewer than that, and it has ended at the latest
\* with the answer of the last one.
C26_BoundedFetches ==
    /\ fetches <= MaxFetches
    /\ pc = "poll_sleep" => fetches < MaxFetches
    /\ (fetches = MaxFetches /\ pc # "poll_fetch") => Done

C26_Witness ==
    /\ fetches = MaxFetches /\ Done /\ failure = Returned
    /\ current_status = "published"

\* C27: the duplicate-source-hash warning and the 'Tarball is too large'
\* error are printed only when the upload itself was rejected with 409 or
\* 413, never for an error of a status fetch.
C27_ConflictOnlyFromUpload ==
    /\ "source hash already exists" \in output => UploadRaised(HttpError(409))
    /\ "Tarball is too large" \in output => UploadRaised(HttpError(413))

---------------------------------------------------------------------------
(* The order of the steps of install, under SpecCmd                        *)

Lookups == IF cmd = "install" THEN calls["get_provider"]
           ELSE calls["get_store_provider"]
Installs == IF cmd = "install" THEN calls["install_provider"]
            ELSE calls["install_store_provider"]

\* C28: install looks the provider up, then asks for confirmation, then
\* calls the remote install, each at most once; the install call is never
\* made after a failed lookup or a declined confirmation, and no prompt is
\* shown before the lookup has answered.
C28_InstallStepOrder ==
    cmd \in {"install", "store install"} =>
        /\ Lookups <= 1 /\ prompts <= 1 /\ Installs <= 1
        /\ (prompts = 1 \/ Installs = 1) =>
              (Lookups = 1 /\ "Provider:" \in output)
        /\ Installs = 1 => (opts.yes \/ answer = "y")
        /\ answer \in {"n", "abort"} => (Installs = 0 /\ Done)
        /\ (Lookups = 1 /\ Installs = 0 /\ failure # Returned) =>
              (Done /\ exit_code = 1 /\ prompts = 0)

\* the lookup answered 404: no prompt, no install call
C28_Witness ==
    /\ cmd = "install" /\ ~opts.yes /\ Done /\ exit_code = 1
    /\ Lookups = 1 /\ failure = HttpError(404)
    /\ prompts = 0 /\ Installs = 0

---------------------------------------------------------------------------
(* The two copies of _format_api_error, under SpecCmd                      *)

\* C29: for the body of every HTTP error the two copies of
\* _format_api_error return the same message and neither raises.
C29_FormattersAgree ==
    IsHttp(failure) =>
        /\ store_format_api_error(body) = _format_api_error(body)
        /\ store_format_api_error(body) # "raises"
        /\ _format_api_error(body) # "raises"

---------------------------------------------------------------------------
(* create_tarball: what is archived, checked under SpecTar                 *)

\* the paths of the source tree none of whose segments is excluded
NonExcludedPaths ==
    {e.path : e \in {f \in tree : \A i \in 1 .. Len(f.path) :
                                   ~SegmentExcluded(f.path[i])}}

\* C30: the members of the archive are the root and exactly the paths of
\* the source tree that have no segment equal to an excluded name and no
\* segment ending with an excluded suffix; a segment that only starts with
\* an excluded name does not exclude the path.
C30_ArchiveIsExactlyNonExcluded ==
    Done => archive = {<<>>} \cup NonExcludedPaths

C30_Witness ==
    /\ Done
    /\ [path |-> <<<<".", "g", "i", "t">>>>, dir |-> TRUE] \in tree
    /\ <<<<".", "g", "i", "t">>>> \notin archive
    /\ <<<<".", "g", "i", "t", "i", "g", "n", "o", "r", "e">>>> \in archive
    /\ <<<<".", "e", "n", "v", ".", "e", "x", "a", "m", "p", "l", "e">>>> \in archive

---------------------------------------------------------------------------
(* resources apply and the secret file-reference resolver. A document is   *)
(* the mapping yaml parsed; a string value is the sequence of its          *)
(* characters and a path is the text that follows the '@' of a reference.  *)

\* largest number of documents in one manifest file
MaxDocs == 2

\* the values a key of config.data may have: two references and a plain text
DataValues == {<<"@", "a">>, <<"@", "b">>, <<"x">>}

\* file_path.read_text() of an existing file
FileContent(path) == <<"c">> \o path

\* one parsed document, of one of the three kinds the tests apply; a
\* config.data with no key stands for a config without data as well
Documents ==
    {[provider |-> kind[1], resource |-> kind[2], name |-> "test-secret",
      config |-> [description |-> "My secret", data |-> data]] :
        kind \in {<<"pragma", "secret">>, <<"gcp", "secret">>,
                  <<"postgres", "database">>},
        data \in UNION {[K -> DataValues] : K \in {{}, {"k1", "k2"}}}}

Manifests == UNION {[1 .. n -> Documents] : n \in 1 .. MaxDocs}

\* mutant: documents of every provider and resource type are scanned
resolve_file_references_any_kind(resource) ==
    LET data == resource.config.data
        IsRef(v) == StartsWith(v, <<"@">>)
    IN  IF \E k \in DOMAIN data : IsRef(data[k]) /\ Tail(data[k]) \notin files
        THEN [ok |-> FALSE, resource |-> resource]
        ELSE [ok |-> TRUE,
              resource |-> [resource EXCEPT !.config.data =
                  [k \in DOMAIN data |->
                      IF IsRef(data[k]) THEN FileContent(Tail(data[k]))
                      ELSE data[k]]]]

\* the resolver: only a pragma/secret document is scanned; a value of
\* config.data that begins with '@' becomes the content of the file, or
\* the resolution fails when the file does not exist
resolve_file_references(resource) ==
    LET data == resource.config.data
        IsRef(v) == StartsWith(v, <<"@">>)
    IN  IF resource.provider # "pragma" \/ resource.resource # "secret"
        THEN [ok |-> TRUE, resource |-> resource]
        ELSE IF \E k \in DOMAIN data :
                    IsRef(data[k]) /\ Tail(data[k]) \notin files
        THEN [ok |-> FALSE, resource |-> resource]
        ELSE [ok |-> TRUE,
              resource |-> [resource EXCEPT !.config.data =
                  [k \in DOMAIN data |->
                      IF IsRef(data[k]) THEN FileContent(Tail(data[k]))
                      ELSE data[k]]]]

\* apply, one document of the file: the resolver runs, then the document
\* is submitted in a call of its own; the call returns the resource or
\* raises, and an error ends the command
apply_document ==
    /\ cmd = "apply" /\ pc = "start"
    /\ next_doc <= Len(manifest)
    /\ LET resolved == resolve_file_references(manifest[next_doc])
       IN  IF ~resolved.ok
           THEN /\ Exit(1, {"Error", "File not found"})
                /\ UNCHANGED <<next_doc, submitted>>
           ELSE /\ submitted' = Append(submitted, resolved.resource)
                /\ \E returned \in BOOLEAN :
                      IF returned
                      THEN /\ next_doc' = next_doc + 1
                           /\ output' = output \cup {"Applied"}
                           /\ UNCHANGED <<pc, exit_code>>
                      ELSE /\ Exit(1, {"Error"})
                           /\ UNCHANGED next_doc
    /\ UNCHANGED <<cmd, auth, opts, pollVars, tarVars, deployment, listVars,
                   initVars, rollbackVars, credVars, configVars, parseVars,
                   promptVars, calls, sent, failure, body, manifest, files>>

\* apply: every document of the file was submitted
apply_finish ==
    /\ cmd = "apply" /\ pc = "start"
    /\ next_doc > Len(manifest)
    /\ Exit(0, {})
    /\ UNCHANGED <<cmd, auth, opts, pollVars, tarVars, deployment, listVars,
                   initVars, rollbackVars, credVars, configVars, parseVars,
                   promptVars, calls, sent, failure, body, applyVars>>

InitApply ==
    /\ cmd = "apply"
    /\ opts = NoOpts
    /\ manifest \in Manifests
    /\ files \in {{<<"a">>}, {<<"a">>, <<"b">>}}
    /\ next_doc = 1
    /\ submitted = <<>>
    /\ InitCommon
    /\ IdleDeploy /\ IdleList /\ IdleInit /\ IdleRollback /\ IdleCred
    /\ IdleConfig /\ IdleParse

NextApply == apply_document \/ apply_finish

SpecApply == InitApply /\ [][NextApply]_vars

---------------------------------------------------------------------------
(* Claims about apply, checked under SpecApply                             *)

IsSecret(doc) == doc.provider = "pragma" /\ doc.resource = "secret"
IsFileReference(v) == Len(v) > 0 /\ Head(v) = "@"
MissingReference(doc) ==
    /\ IsSecret(doc)
    /\ \E k \in DOMAIN doc.config.data :
          /\ IsFileReference(doc.config.data[k])
          /\ Tail(doc.config.data[k]) \notin files

\* C21: a submitted document differs from the parsed one only where it is
\* a pragma/secret and a value under config.data begins with '@'; such a
\* value is the content of the referenced file. Every other field, every
\* other value, and every document of another provider or resource type
\* is submitted as parsed.
C21_OnlySecretReferencesRewritten ==
    \A i \in 1 .. Len(submitted) :
        LET doc == manifest[i]
            sub == submitted[i]
        IN  IF ~IsSecret(doc) THEN sub = doc
            ELSE /\ sub.provider = doc.provider
                 /\ sub.resource = doc.resource
                 /\ sub.name = doc.name
                 /\ sub.config.description = doc.config.description
                 /\ DOMAIN sub.config = DOMAIN doc.config
                 /\ DOMAIN sub.config.data = DOMAIN doc.config.data
                 /\ \A k \in DOMAIN doc.config.data :
                       sub.config.data[k] =
                           IF IsFileReference(doc.config.data[k])
                           THEN FileContent(Tail(doc.config.data[k]))
                           ELSE doc.config.data[k]

C21_Witness ==
    /\ Done /\ exit_code = 0
    /\ Len(submitted) = 2
    /\ ~IsSecret(manifest[1])
    /\ manifest[1].config.data = [k1 |-> <<"@", "a">>, k2 |-> <<"@", "a">>]
    /\ submitted[1] = manifest[1]
    /\ IsSecret(manifest[2])
    /\ manifest[2].config.data = [k1 |-> <<"@", "b">>, k2 |-> <<"x">>]
    /\ submitted[2].config.data = [k1 |-> <<"c", "b">>, k2 |-> <<"x">>]

====
